---------------------------- MODULE Spec2Model ----------------------------
(***************************************************************************)
(* Model of streamlit_app.py, the tabula-py variant of the order-PDF       *)
(* processor: the helper functions extract_customer_info,                  *)
(* process_line_items and calculate_summary_stats, and one run of main().  *)
(*                                                                         *)
(* Python strings are sequences of one-character strings, so that          *)
(* str.lower, str.strip, the keyword tests and the regular expressions     *)
(* are computed rather than assumed.  A DataFrame is a record              *)
(*   [text, columns, index, rows]                                          *)
(* where columns is the sequence of column names, index the sequence of    *)
(* row labels, rows the sequence of rows (each a sequence of cells aligned *)
(* with columns, a cell being a string or NaN), and text is what           *)
(* df.to_string() renders for it.                                          *)
(***************************************************************************)
EXTENDS Integers, Sequences, FiniteSets, TLC

VARIABLES
    pc,                 \* position of the run
    TABULA_AVAILABLE,   \* module-level flag set by the import of tabula
    java_ok,            \* what check_java() returns in this run
    uploaded_file,      \* TRUE when st.file_uploader returned a file
    pressed,            \* TRUE when the process button is pressed in this run
    messages,           \* user-facing messages shown so far
    uploader_offered,   \* st.file_uploader has been rendered
    tmp_created,        \* NamedTemporaryFile has created the file
    tmp_written,        \* the uploaded bytes are in the file
    tmp_exists,         \* the temporary file is on disk
    read_calls,         \* number of calls of tabula.read_pdf
    raising,            \* an exception is in flight through the finally block
    propagated,         \* an exception left main()
    dfs,                \* the list of DataFrames (read_pdf's result)
    customer_name,
    order_date,
    items_df,
    total_products,
    total_quantity,
    summary_shown,      \* the Order Summary metrics have been rendered
    downloads_offered   \* the download buttons have been rendered

vars == <<pc, TABULA_AVAILABLE, java_ok, uploaded_file, pressed, messages,
          uploader_offered, tmp_created, tmp_written, tmp_exists, read_calls,
          raising, propagated, dfs, customer_name, order_date, items_df,
          total_products, total_quantity, summary_shown, downloads_offered>>

-----------------------------------------------------------------------------
(* Strings *)

\* the lower-case letter of each upper-case letter
LowerOf ==
    [A |-> "a", B |-> "b", C |-> "c", D |-> "d", E |-> "e", F |-> "f", G |-> "g",
     H |-> "h", I |-> "i", J |-> "j", K |-> "k", L |-> "l", M |-> "m", N |-> "n",
     O |-> "o", P |-> "p", Q |-> "q", R |-> "r", S |-> "s", T |-> "t", U |-> "u",
     V |-> "v", W |-> "w", X |-> "x", Y |-> "y", Z |-> "z"]

UpperChars == DOMAIN LowerOf

DigitChars == <<"0","1","2","3","4","5","6","7","8","9">>

DigitSet == {"0","1","2","3","4","5","6","7","8","9"}

IsDigit(c) == c \in DigitSet

DigitVal(c) == (CHOOSE i \in 1..10 : DigitChars[i] = c) - 1

LowerChar(c) == IF c \in UpperChars THEN LowerOf[c] ELSE c

\* str.lower()
StrLower(s) == <<>> \o [i \in 1..Len(s) |-> LowerChar(s[i])]

\* kw in s
Contains(s, kw) ==
    \E i \in 0..(Len(s) - Len(kw)) : SubSeq(s, i + 1, i + Len(kw)) = kw

\* the characters of class \s
IsSpace(c) == c \in {" ", "\t", "\n", "\r"}

\* str.strip()
Strip(s) ==
    LET keep == {i \in 1..Len(s) : ~IsSpace(s[i])}
    IN  IF keep = {} THEN <<>>
        ELSE SubSeq(s, CHOOSE i \in keep : \A j \in keep : i <= j,
                       CHOOSE i \in keep : \A j \in keep : j <= i)

RECURSIVE IntToStr(_)
\* str(n) for n >= 0
IntToStr(n) ==
    IF n < 10 THEN <<DigitChars[n + 1]>>
    ELSE IntToStr(n \div 10) \o <<DigitChars[(n % 10) + 1]>>

\* a missing value; no string of characters equals it
NaN == <<"<NaN>">>

-----------------------------------------------------------------------------
(* Regular expressions of extract_customer_info.  re.search(p, s,          *)
(* re.IGNORECASE) is modelled by the capture of group 1 at the leftmost    *)
(* position where p matches, or NoMatch.  The literal parts are matched on *)
(* the lower-cased text, the capture is cut from the text itself.          *)

NoMatch == <<"<None>">>

IsNewline(c) == c \in {"\n", "\r"}

\* the literal w occurs in s at position p
LitAt(s, p, w) == p >= 1 /\ p + Len(w) - 1 <= Len(s) /\ SubSeq(s, p, p + Len(w) - 1) = w

\* number of consecutive characters of s from position p on that are in class
RunLen(s, p, class) ==
    LET stops == {i \in p..Len(s) : s[i] \notin class}
    IN  IF p > Len(s) THEN 0
        ELSE IF stops = {} THEN Len(s) - p + 1
        ELSE (CHOOSE i \in stops : \A j \in stops : i <= j) - p

SpaceChars == {" ", "\t", "\n", "\r"}

SepChars == SpaceChars \cup {":"}

\* A customer pattern is word, or word [letters]* \s+ To; PrefixEnd is the
\* position after the part before [:\s]+ when it matches at p, else 0.
PrefixEnd(low, p, pat) ==
    IF ~LitAt(low, p, pat.word) THEN 0
    ELSE IF ~pat.to THEN p + Len(pat.word)
    ELSE LET a == p + Len(pat.word)
             b == a + RunLen(low, a, pat.letters)
             c == b + RunLen(low, b, SpaceChars)
         IN  IF c > b /\ LitAt(low, c, <<"t","o">>) THEN c + 2 ELSE 0

\* [:\s]+([^\n\r]+) from position e: the greedy separator run gives back
\* characters until one character that is not a line break is left for the
\* group; the group then runs to the end of the line.  <<start, end>> or <<0,0>>.
RestOfLine(s, e) ==
    LET r == RunLen(s, e, SepChars)
        starts == {q \in (e + 1)..(e + r) : q <= Len(s) /\ ~IsNewline(s[q])}
    IN  IF r = 0 \/ starts = {} THEN <<0, 0>>
        ELSE LET q == CHOOSE x \in starts : \A y \in starts : y <= x
             IN  <<q, q + RunLen(s, q, {s[i] : i \in 1..Len(s)} \ {"\n", "\r"}) - 1>>

\* customer_patterns (in the listed order)
customer_patterns == <<
    [word |-> <<"c","u","s","t","o","m","e","r">>, to |-> FALSE, letters |-> {}],
    [word |-> <<"b","i","l","l">>, to |-> TRUE, letters |-> {"i","n","g"}],
    [word |-> <<"s","h","i","p">>, to |-> TRUE, letters |-> {"p","i","n","g"}],
    [word |-> <<"n","a","m","e">>, to |-> FALSE, letters |-> {}],
    [word |-> <<"c","l","i","e","n","t">>, to |-> FALSE, letters |-> {}] >>

\* re.search(customer_patterns[k], s, re.IGNORECASE): group(1) or NoMatch
SearchCustomer(s, k) ==
    LET low == StrLower(s)
        pat == customer_patterns[k]
        hit(p) == LET e == PrefixEnd(low, p, pat)
                  IN  e > 0 /\ RestOfLine(s, e)[1] > 0
        ps  == {p \in 1..Len(s) : hit(p)}
    IN  IF ps = {} THEN NoMatch
        ELSE LET p == CHOOSE x \in ps : \A y \in ps : x <= y
                 g == RestOfLine(s, PrefixEnd(low, p, pat))
             IN  SubSeq(s, g[1], g[2])

\* \d{1,2}[/-]\d{1,2}[/-]\d{2,4} at position q: the end of the greedy match, or 0
DateEnd(s, q) ==
    LET digits(a, n) == a + n - 1 <= Len(s) /\ \A i \in a..(a + n - 1) : IsDigit(s[i])
        sepAt(a) == a <= Len(s) /\ s[a] \in {"/", "-"}
        ends == {q + n1 + 1 + n2 + 1 + n3 - 1 : n1 \in {1, 2}, n2 \in {1, 2}, n3 \in {2, 3, 4}}
        ok(e) == \E n1 \in {1, 2}, n2 \in {1, 2}, n3 \in {2, 3, 4} :
                    /\ e = q + n1 + 1 + n2 + 1 + n3 - 1
                    /\ digits(q, n1) /\ sepAt(q + n1)
                    /\ digits(q + n1 + 1, n2) /\ sepAt(q + n1 + 1 + n2)
                    /\ digits(q + n1 + n2 + 2, n3)
        good == {e \in ends : ok(e)}
    IN  IF q < 1 \/ q > Len(s) THEN 0
        ELSE IF ~IsDigit(s[q]) \/ good = {} THEN 0
        ELSE CHOOSE e \in good : \A f \in good : f <= e

\* date_patterns (in the listed order): the literal part before the date;
\* order |-> TRUE is Order\s+ in front of Date, word <<>> is the bare date.
date_patterns == <<
    [word |-> <<"d","a","t","e">>, order |-> FALSE],
    [word |-> <<"d","a","t","e">>, order |-> TRUE],
    [word |-> <<>>, order |-> FALSE] >>

\* position where the date group starts when date_patterns[k] matches at p, else 0
DateStart(low, p, pat) ==
    IF pat.word = <<>> THEN p
    ELSE LET a == IF pat.order
                  THEN IF LitAt(low, p, <<"o","r","d","e","r">>) /\ RunLen(low, p + 5, SpaceChars) > 0
                       THEN p + 5 + RunLen(low, p + 5, SpaceChars)
                       ELSE 0
                  ELSE p
         IN  IF a = 0 \/ ~LitAt(low, a, pat.word) THEN 0
             ELSE LET e == a + Len(pat.word)
                      r == RunLen(low, e, SepChars)
                  IN  IF r = 0 THEN 0 ELSE e + r

\* re.search(date_patterns[k], s, re.IGNORECASE): group(1) or NoMatch
SearchDate(s, k) ==
    LET low == StrLower(s)
        pat == date_patterns[k]
        hit(p) == DateEnd(s, DateStart(low, p, pat)) > 0
        ps  == {p \in 1..Len(s) : hit(p)}
    IN  IF ps = {} THEN NoMatch
        ELSE LET p == CHOOSE x \in ps : \A y \in ps : x <= y
                 q == DateStart(low, p, pat)
             IN  SubSeq(s, q, DateEnd(s, q))

-----------------------------------------------------------------------------
(* extract_customer_info *)

\* the sentinel "Not found"
NotFound == <<"N","o","t"," ","f","o","u","n","d">>

RECURSIVE TryCustomerPatterns(_, _, _)
\* for pattern in customer_patterns, from pattern k on; the result is
\* customer_name after the loop
TryCustomerPatterns(df_str, k, name) ==
    IF k > Len(customer_patterns) THEN name
    ELSE LET match == SearchCustomer(df_str, k)
         IN  IF match # NoMatch /\ name = NotFound
             THEN Strip(match)
             ELSE TryCustomerPatterns(df_str, k + 1, name)

RECURSIVE TryDatePatterns(_, _, _)
\* for pattern in date_patterns, from pattern k on; the result is order_date
\* after the loop
TryDatePatterns(df_str, k, date) ==
    IF k > Len(date_patterns) THEN date
    ELSE LET match == SearchDate(df_str, k)
         IN  IF match # NoMatch /\ date = NotFound
             THEN Strip(match)
             ELSE TryDatePatterns(df_str, k + 1, date)

RECURSIVE ScanFrames(_, _, _, _)
\* for df in dfs, from position i on
ScanFrames(frames, i, name, date) ==
    IF i > Len(frames) THEN <<name, date>>
    ELSE ScanFrames(frames, i + 1,
                    TryCustomerPatterns(frames[i].text, 1, name),
                    TryDatePatterns(frames[i].text, 1, date))

\* <<customer_name, order_date>>
extract_customer_info(frames) == ScanFrames(frames, 1, NotFound, NotFound)

-----------------------------------------------------------------------------
(* DataFrames *)

RECURSIVE SortedSeq(_)
\* the elements of a finite set of integers in increasing order
SortedSeq(S) ==
    IF S = {} THEN <<>>
    ELSE LET m == CHOOSE x \in S : \A y \in S : x <= y
         IN  <<m>> \o SortedSeq(S \ {m})

Range(f) == {f[i] : i \in DOMAIN f}

\* pd.DataFrame()
EmptyFrame == [text |-> <<>>, columns |-> <<>>, index |-> <<>>, rows |-> <<>>]

\* len(df)
FrameLen(df) == Len(df.rows)

\* df.empty
IsEmpty(df) == Len(df.rows) = 0 \/ Len(df.columns) = 0

\* number of non-missing cells of a row
NonMissing(row) == Cardinality({j \in 1..Len(row) : row[j] # NaN})

\* df restricted to the rows at the positions in keep, labels kept
TakeRows(df, keep) ==
    LET ps == SortedSeq(keep)
    IN  [df EXCEPT !.index = [k \in 1..Len(ps) |-> df.index[ps[k]]],
                   !.rows  = [k \in 1..Len(ps) |-> df.rows[ps[k]]]]

\* df.dropna(how='all')
DropNaAll(df) == TakeRows(df, {r \in 1..Len(df.rows) : NonMissing(df.rows[r]) > 0})

\* the threshold factor 0.3 of dropna(thresh=len(columns) * 0.3), as 3/10
ThreshNum == 3

ThreshDen == 10

\* df.dropna(thresh=len(df.columns) * 0.3)
DropNaThresh(df) ==
    TakeRows(df, {r \in 1..Len(df.rows) :
                    ThreshDen * NonMissing(df.rows[r]) >= ThreshNum * Len(df.columns)})

-----------------------------------------------------------------------------
(* process_line_items *)

TableSourceCol == <<"T","a","b","l","e","_","S","o","u","r","c","e">>

RowIndexCol == <<"R","o","w","_","I","n","d","e","x">>

\* TableSource numbering the tables from 0
TableSourceFromZero(i) == <<"T","a","b","l","e","_">> \o IntToStr(i)

\* f'Table_{i+1}'
TableSource(i) == <<"T","a","b","l","e","_">> \o IntToStr(i + 1)

\* dataframes with fewer rows are skipped
MinRows == 2

\* item_data for the row at position r of df_copy, table number i (0-based):
\* a dict, as its keys in insertion order and the values aligned with them.
\* A column named like a metadata key overwrites that key's value.
ItemData(i, df_copy, r) ==
    LET cols  == df_copy.columns
        extra == SelectSeq(cols, LAMBDA c : c \notin {TableSourceCol, RowIndexCol})
        keys  == <<TableSourceCol, RowIndexCol>> \o extra
        colOf(c) == CHOOSE j \in 1..Len(cols) : cols[j] = c /\ \A h \in 1..Len(cols) : cols[h] = c => h <= j
        val(c) == IF c \in Range(cols) THEN df_copy.rows[r][colOf(c)]
                  ELSE IF c = TableSourceCol THEN TableSource(i)
                  ELSE IntToStr(df_copy.index[r])
    IN  [keys |-> keys, vals |-> [k \in 1..Len(keys) |-> val(keys[k])]]

RECURSIVE CollectItems(_, _)
\* for i, df in enumerate(dfs), from position pos = i + 1 on: the items appended
CollectItems(frames, pos) ==
    IF pos > Len(frames) THEN <<>>
    ELSE LET df == frames[pos]
         IN  IF FrameLen(df) < MinRows THEN CollectItems(frames, pos + 1)
             ELSE LET df_copy == DropNaAll(df)
                  IN  [r \in 1..FrameLen(df_copy) |-> ItemData(pos - 1, df_copy, r)]
                        \o CollectItems(frames, pos + 1)

RECURSIVE UnionKeys(_, _, _)
\* the keys of the items from item k on, in order of first appearance
UnionKeys(items, k, acc) ==
    IF k > Len(items) THEN acc
    ELSE UnionKeys(items, k + 1,
                   acc \o SelectSeq(items[k].keys, LAMBDA c : c \notin Range(acc)))

\* pd.DataFrame(all_items): the union of the keys as columns, NaN where an
\* item lacks a key, rows labelled 0, 1, ...
FrameOfItems(items) ==
    LET cols == UnionKeys(items, 1, <<>>)
        cell(item, c) == IF c \in Range(item.keys)
                         THEN item.vals[CHOOSE k \in 1..Len(item.keys) : item.keys[k] = c]
                         ELSE NaN
    IN  [text |-> <<>>, columns |-> cols,
         index |-> [k \in 1..Len(items) |-> k - 1],
         rows |-> [k \in 1..Len(items) |-> [j \in 1..Len(cols) |-> cell(items[k], cols[j])]]]

process_line_items(frames) ==
    LET all_items == CollectItems(frames, 1)
    IN  IF Len(all_items) > 0
        THEN DropNaThresh(FrameOfItems(all_items))
        ELSE EmptyFrame

-----------------------------------------------------------------------------
(* calculate_summary_stats *)

\* ['qty', 'quantity', 'units', 'count']
QtyKeywords == {<<"q","t","y">>, <<"q","u","a","n","t","i","t","y">>, <<"u","n","i","t","s">>, <<"c","o","u","n","t">>}

\* any(keyword in str(col).lower() for keyword in [...])
IsQtyColumn(col) == \E kw \in QtyKeywords : Contains(StrLower(col), kw)

\* .astype(str) of one cell
AsStr(cell) == IF cell = NaN THEN <<"n","a","n">> ELSE cell

\* .str.replace(r'[^\d.]', '', regex=True) of one cell
StripNonNumeric(s) == SelectSeq(s, LAMBDA c : IsDigit(c) \/ c = ".")

\* numbers are kept in fixed point with this many fractional digits
MaxFracDigits == 1

Scale == 10 ^ MaxFracDigits

RECURSIVE DigitsValue(_)
\* the number a sequence of digits denotes (0 for none)
DigitsValue(ds) ==
    IF Len(ds) = 0 THEN 0
    ELSE 10 * DigitsValue(SubSeq(ds, 1, Len(ds) - 1)) + DigitVal(ds[Len(ds)])

\* pd.to_numeric(s, errors='coerce') of a string of digits and dots: the
\* value times Scale, or -1 for NaN
ToNumeric(s) ==
    LET dots == {i \in 1..Len(s) : s[i] = "."}
    IN  IF Cardinality(dots) > 1 \/ Len(s) = Cardinality(dots) THEN -1
        ELSE IF dots = {} THEN DigitsValue(s) * Scale
        ELSE LET d == CHOOSE i \in dots : TRUE
                 frac == SubSeq(s, d + 1, Len(s))
                 kept == SubSeq(frac \o [i \in 1..MaxFracDigits |-> "0"], 1, MaxFracDigits)
             IN  DigitsValue(SubSeq(s, 1, d - 1)) * Scale + DigitsValue(kept)

RECURSIVE SumSeq(_)
SumSeq(xs) == IF Len(xs) = 0 THEN 0 ELSE xs[1] + SumSeq(Tail(xs))

\* numeric_values.sum() for the column at position j (NaN skipped), times Scale
ColumnSum(df, j) ==
    LET numeric_values == [r \in 1..Len(df.rows) |->
                              ToNumeric(StripNonNumeric(AsStr(df.rows[r][j])))]
    IN  SumSeq(SelectSeq(numeric_values, LAMBDA v : v >= 0))

RECURSIVE SumFirstQtyColumn(_, _)
\* for col in items_df.columns, from position j on: total_quantity (times
\* Scale) after the loop, which stops at the first quantity column
SumFirstQtyColumn(df, j) ==
    IF j > Len(df.columns) THEN 0
    ELSE IF IsQtyColumn(df.columns[j]) THEN 0 + ColumnSum(df, j)
    ELSE SumFirstQtyColumn(df, j + 1)

\* a total quantity is an int or a string
IntValue(n) == [kind |-> "int", n |-> n, s |-> <<>>]

StrValue(s) == [kind |-> "str", n |-> 0, s |-> s]

\* the sentinel "Unable to calculate"
UnableToCalculate == StrValue(<<"U","n","a","b","l","e"," ","t","o"," ","c","a","l","c","u","l","a","t","e">>)

\* <<total_products, total_quantity>>
calculate_summary_stats(df) ==
    IF IsEmpty(df) THEN <<0, IntValue(0)>>
    ELSE LET total_products_ == Len(df.rows)
             total_quantity_ == SumFirstQtyColumn(df, 1)
         IN  <<total_products_,
               IF total_quantity_ > 0 THEN IntValue(total_quantity_ \div Scale)
               ELSE UnableToCalculate>>

-----------------------------------------------------------------------------
(* One run of main() *)

\* tabula.read_pdf returns a list of at most this many tables
MaxPdfTables == 2

\* what df.to_string() renders for the tables a PDF yields
PdfTexts == {<<>>, <<"C","u","s","t","o","m","e","r",":"," ","J","a","n","e"," ","D","o","e","\n","Q","t","y",":"," ","5">>}

ItemCol == <<"I","t","e","m">>

QtyCol == <<"Q","t","y">>

\* the cells of the tables a PDF yields
PdfData ==
    { [columns |-> <<ItemCol>>, index |-> <<>>, rows |-> <<>>],
      [columns |-> <<ItemCol>>, index |-> <<0, 1>>, rows |-> << <<<<"a">>>>, <<<<"b">>>> >>],
      [columns |-> <<ItemCol, QtyCol>>, index |-> <<0, 1>>,
       rows |-> << <<<<"a">>, <<"5">>>>, <<<<"b">>, <<"3">>>> >>] }

PdfFrames ==
    { [text |-> t, columns |-> d.columns, index |-> d.index, rows |-> d.rows] :
        t \in PdfTexts, d \in PdfData }

\* the sequences over S of length at most n
SeqUpTo(S, n) == UNION {[1..k -> S] : k \in 0..n}

\* the results tabula.read_pdf may return
PdfResults == SeqUpTo(PdfFrames, MaxPdfTables)

NoValue == IntValue(0)

Init ==
    /\ pc = "start"
    /\ TABULA_AVAILABLE \in BOOLEAN
    /\ java_ok \in BOOLEAN
    /\ uploaded_file \in BOOLEAN
    /\ pressed \in BOOLEAN
    /\ messages = {}
    /\ uploader_offered = FALSE
    /\ tmp_created = FALSE
    /\ tmp_written = FALSE
    /\ tmp_exists = FALSE
    /\ read_calls = 0
    /\ raising = FALSE
    /\ propagated = FALSE
    /\ dfs = <<>>
    /\ customer_name = <<>>
    /\ order_date = <<>>
    /\ items_df = EmptyFrame
    /\ total_products = 0
    /\ total_quantity = NoValue
    /\ summary_shown = FALSE
    /\ downloads_offered = FALSE

inputs == <<TABULA_AVAILABLE, java_ok, uploaded_file, pressed>>

results == <<dfs, customer_name, order_date, items_df, total_products, total_quantity>>

tmpfile == <<tmp_created, tmp_written, tmp_exists>>

\* CheckDependencies without the return: the message is shown and the run goes on
CheckDependenciesNoReturn ==
    /\ pc = "start"
    /\ messages' = IF ~TABULA_AVAILABLE THEN messages \cup {"Missing Dependencies"}
                   ELSE messages
    /\ pc' = "check_java"
    /\ UNCHANGED <<inputs, results, tmpfile, uploader_offered, read_calls, raising,
                   propagated, summary_shown, downloads_offered>>

\* if not TABULA_AVAILABLE: st.error(...); return
CheckDependencies ==
    /\ pc = "start"
    /\ IF ~TABULA_AVAILABLE
       THEN /\ messages' = messages \cup {"Missing Dependencies"}
            /\ pc' = "done"
       ELSE /\ pc' = "check_java"
            /\ UNCHANGED messages
    /\ UNCHANGED <<inputs, results, tmpfile, uploader_offered, read_calls, raising,
                   propagated, summary_shown, downloads_offered>>

\* if not check_java(): st.warning(...)
CheckJava ==
    /\ pc = "check_java"
    /\ messages' = IF ~java_ok THEN messages \cup {"Java Runtime Not Detected"}
                   ELSE messages
    /\ pc' = "file_uploader"
    /\ UNCHANGED <<inputs, results, tmpfile, uploader_offered, read_calls, raising,
                   propagated, summary_shown, downloads_offered>>

\* uploaded_file = st.file_uploader(...); the else branch when it is None
FileUploader ==
    /\ pc = "file_uploader"
    /\ uploader_offered' = TRUE
    /\ IF uploaded_file
       THEN /\ pc' = "tmp_file"
            /\ UNCHANGED messages
       ELSE /\ messages' = messages \cup {"Please upload an order PDF file"}
            /\ pc' = "done"
    /\ UNCHANGED <<inputs, results, tmpfile, read_calls, raising, propagated,
                   summary_shown, downloads_offered>>

\* with tempfile.NamedTemporaryFile(delete=False, suffix=".pdf") as tmp_file
CreateTempFile ==
    /\ pc = "tmp_file"
    /\ tmp_created' = TRUE
    /\ tmp_exists' = TRUE
    /\ pc' = "write"
    /\ UNCHANGED <<inputs, results, tmp_written, messages, uploader_offered, read_calls,
                   raising, propagated, summary_shown, downloads_offered>>

\* WriteTempFile with delete=True: closing the file at the end of the with
\* block removes it
WriteTempFileDeleteOnClose ==
    /\ pc = "write"
    /\ tmp_exists' = FALSE
    /\ \/ /\ tmp_written' = TRUE
          /\ pc' = "options"
          /\ UNCHANGED propagated
       \/ /\ propagated' = TRUE
          /\ pc' = "done"
          /\ UNCHANGED tmp_written
    /\ UNCHANGED <<inputs, results, tmp_created, messages, uploader_offered,
                   read_calls, raising, summary_shown, downloads_offered>>

\* tmp_file.write(uploaded_file.getvalue()), and the end of the with block,
\* which closes the file and (delete=False) leaves it on disk.  A failure
\* here is outside every try block: it leaves main().
WriteTempFile ==
    /\ pc = "write"
    /\ \/ /\ tmp_written' = TRUE
          /\ pc' = "options"
          /\ UNCHANGED propagated
       \/ /\ propagated' = TRUE
          /\ pc' = "done"
          /\ UNCHANGED tmp_written
    /\ UNCHANGED <<inputs, results, tmp_created, tmp_exists, messages, uploader_offered,
                   read_calls, raising, summary_shown, downloads_offered>>

\* st.success(...) and the sidebar widgets, inside try ... finally but
\* outside the inner try ... except
ExtractionOptions ==
    /\ pc = "options"
    /\ \/ /\ messages' = messages \cup {"File uploaded"}
          /\ pc' = "button"
          /\ UNCHANGED raising
       \/ /\ raising' = TRUE
          /\ pc' = "finally"
          /\ UNCHANGED messages
    /\ UNCHANGED <<inputs, results, tmpfile, uploader_offered, read_calls, propagated,
                   summary_shown, downloads_offered>>

\* if st.button("Process Order PDF")
ProcessButton ==
    /\ pc = "button"
    /\ pc' = IF pressed THEN "read_pdf" ELSE "finally"
    /\ UNCHANGED <<inputs, results, tmpfile, messages, uploader_offered, read_calls,
                   raising, propagated, summary_shown, downloads_offered>>

\* dfs = tabula.read_pdf(tmp_file_path, ...)
ReadPdf ==
    /\ pc = "read_pdf"
    /\ read_calls' = read_calls + 1
    /\ \/ \E r \in PdfResults :
            /\ dfs' = r
            /\ pc' = "tables"
       \/ /\ pc' = "except"
          /\ UNCHANGED dfs
    /\ UNCHANGED <<inputs, customer_name, order_date, items_df, total_products,
                   total_quantity, tmpfile, messages, uploader_offered, raising,
                   propagated, summary_shown, downloads_offered>>

\* ProcessTables without the test of dfs: the summary is computed and shown
\* for an empty list too
ProcessTablesNoEmptyTest ==
    /\ pc = "tables"
    /\ LET info  == extract_customer_info(dfs)
           items == process_line_items(dfs)
           stats == calculate_summary_stats(items)
       IN  /\ customer_name' = info[1]
           /\ order_date' = info[2]
           /\ items_df' = items
           /\ total_products' = stats[1]
           /\ total_quantity' = stats[2]
    /\ summary_shown' = TRUE
    /\ pc' = "line_items"
    /\ UNCHANGED <<inputs, dfs, tmpfile, messages, uploader_offered, read_calls, raising,
                   propagated, downloads_offered>>

\* if dfs and len(dfs) > 0: the three helper calls and the Order Summary
\* metrics; else: "No tables found"
ProcessTables ==
    /\ pc = "tables"
    /\ IF Len(dfs) > 0
       THEN \/ /\ LET info  == extract_customer_info(dfs)
                      items == process_line_items(dfs)
                      stats == calculate_summary_stats(items)
                  IN  /\ customer_name' = info[1]
                      /\ order_date' = info[2]
                      /\ items_df' = items
                      /\ total_products' = stats[1]
                      /\ total_quantity' = stats[2]
               /\ summary_shown' = TRUE
               /\ pc' = "line_items"
               /\ UNCHANGED messages
            \/ /\ pc' = "except"
               /\ UNCHANGED <<customer_name, order_date, items_df, total_products,
                              total_quantity, summary_shown, messages>>
       ELSE /\ messages' = messages \cup {"No tables found"}
            /\ pc' = "finally"
            /\ UNCHANGED <<customer_name, order_date, items_df, total_products,
                           total_quantity, summary_shown>>
    /\ UNCHANGED <<inputs, dfs, tmpfile, uploader_offered, read_calls, raising,
                   propagated, downloads_offered>>

\* if not items_df.empty: the table and the three downloads; else: the
\* warning and the raw tables
LineItems ==
    /\ pc = "line_items"
    /\ IF ~IsEmpty(items_df)
       THEN \/ /\ downloads_offered' = TRUE
               /\ pc' = "finally"
               /\ UNCHANGED messages
            \/ /\ pc' = "except"
               /\ UNCHANGED <<downloads_offered, messages>>
       ELSE /\ messages' = messages \cup {"No line items found"}
            /\ pc' = "finally"
            /\ UNCHANGED downloads_offered
    /\ UNCHANGED <<inputs, results, tmpfile, uploader_offered, read_calls, raising,
                   propagated, summary_shown>>

\* except Exception as e: st.error(...)
ExceptHandler ==
    /\ pc = "except"
    /\ messages' = messages \cup {"Error processing PDF"}
    /\ pc' = "finally"
    /\ UNCHANGED <<inputs, results, tmpfile, uploader_offered, read_calls, raising,
                   propagated, summary_shown, downloads_offered>>

\* finally: if os.path.exists(tmp_file_path): os.unlink(tmp_file_path); an
\* exception in flight then leaves main()
FinallyCleanup ==
    /\ pc = "finally"
    /\ tmp_exists' = FALSE
    /\ propagated' = raising
    /\ pc' = "done"
    /\ UNCHANGED <<inputs, results, tmp_created, tmp_written, messages, uploader_offered,
                   read_calls, raising, summary_shown, downloads_offered>>

Next ==
    \/ CheckDependencies
    \/ CheckJava
    \/ FileUploader
    \/ CreateTempFile
    \/ WriteTempFile
    \/ ExtractionOptions
    \/ ProcessButton
    \/ ReadPdf
    \/ ProcessTables
    \/ LineItems
    \/ ExceptHandler
    \/ FinallyCleanup

Spec == Init /\ [][Next]_vars

-----------------------------------------------------------------------------
(* The helper functions on their own: the three calls of main()            *)
(*   customer_name, order_date = extract_customer_info(dfs)                *)
(*   items_df = process_line_items(dfs)                                    *)
(*   total_products, total_quantity = calculate_summary_stats(items_df)    *)
(* each as a step of its own, on inputs drawn from bounded sets.           *)

CallExtractCustomerInfo ==
    /\ pc = "extract_customer_info"
    /\ LET info == extract_customer_info(dfs)
       IN  /\ customer_name' = info[1]
           /\ order_date' = info[2]
    /\ pc' = "process_line_items"
    /\ UNCHANGED <<inputs, dfs, items_df, total_products, total_quantity, tmpfile,
                   messages, uploader_offered, read_calls, raising, propagated,
                   summary_shown, downloads_offered>>

CallProcessLineItems ==
    /\ pc = "process_line_items"
    /\ items_df' = process_line_items(dfs)
    /\ pc' = "calculate_summary_stats"
    /\ UNCHANGED <<inputs, dfs, customer_name, order_date, total_products,
                   total_quantity, tmpfile, messages, uploader_offered, read_calls,
                   raising, propagated, summary_shown, downloads_offered>>

CallCalculateSummaryStats ==
    /\ pc = "calculate_summary_stats"
    /\ LET stats == calculate_summary_stats(items_df)
       IN  /\ total_products' = stats[1]
           /\ total_quantity' = stats[2]
    /\ pc' = "returned"
    /\ UNCHANGED <<inputs, dfs, customer_name, order_date, items_df, tmpfile,
                   messages, uploader_offered, read_calls, raising, propagated,
                   summary_shown, downloads_offered>>

\* the state before the call at position start, for the tables in frameLists
HelperInit(start, frameLists) ==
    /\ pc = start
    /\ dfs \in frameLists
    /\ TABULA_AVAILABLE = TRUE
    /\ java_ok = TRUE
    /\ uploaded_file = TRUE
    /\ pressed = TRUE
    /\ messages = {}
    /\ uploader_offered = TRUE
    /\ tmp_created = TRUE
    /\ tmp_written = TRUE
    /\ tmp_exists = TRUE
    /\ read_calls = 1
    /\ raising = FALSE
    /\ propagated = FALSE
    /\ customer_name = <<>>
    /\ order_date = <<>>
    /\ items_df = EmptyFrame
    /\ total_products = 0
    /\ total_quantity = NoValue
    /\ summary_shown = FALSE
    /\ downloads_offered = FALSE

RECURSIVE JoinLines(_)
\* the lines joined by line breaks
JoinLines(lines) ==
    IF Len(lines) = 0 THEN <<>>
    ELSE IF Len(lines) = 1 THEN lines[1]
    ELSE lines[1] \o <<"\n">> \o JoinLines(Tail(lines))

\* Tables whose rendered text is made of these lines
TextLines == {<<"C","u","s","t","o","m","e","r",":"," ","J","a","n","e"," ","D","o","e">>,
              <<"C","u","s","t","o","m","e","r",":"," ","N","o","t"," ","f","o","u","n","d">>,
              <<"N","a","m","e",":"," ","A","c","m","e"," ">>,
              <<"B","i","l","l"," ","T","o",":"," ","B","o","b">>,
              <<"D","a","t","e",":"," ","1","2","/","0","1","/","2","0","2","4">>,
              <<"O","r","d","e","r"," ","D","a","t","e",":"," ","1","-","2","-","2","4">>,
              <<"T","o","t","a","l"," ","5">>}

\* a table's text has at most this many lines
MaxLines == 2

\* extract_customer_info is given at most this many tables
MaxTextFrames == 2

TextFrames ==
    { [text |-> JoinLines(ls), columns |-> <<>>, index |-> <<>>, rows |-> <<>>] :
        ls \in SeqUpTo(TextLines, MaxLines) }

InitCustomer == HelperInit("extract_customer_info", SeqUpTo(TextFrames, MaxTextFrames))

NextCustomer == CallExtractCustomerInfo

SpecCustomer == InitCustomer /\ [][NextCustomer]_vars

\* Tables of line items: a one-column table and a wide one
MaxWide == 8

\* a table of line items has at most this many rows
MaxItemRows == 2

\* process_line_items is given at most this many tables
MaxItemFrames == 2

NarrowColumns == <<<<"a">>>>

WideColumns == [j \in 1..MaxWide |-> <<"c">> \o IntToStr(j)]

\* rows of the one-column table: the cell missing, the cell filled
NarrowRows == {<<NaN>>, <<<<"v">>>>}

\* rows of the wide table: only the first cell filled, every cell filled
WideRows ==
    { [j \in 1..MaxWide |-> IF j = 1 THEN <<"w">> ELSE NaN],
      [j \in 1..MaxWide |-> <<"v">>] }

FramesOver(cols, rowSet, maxRows) ==
    { [text |-> <<>>, columns |-> cols, index |-> [k \in 1..Len(rs) |-> k - 1], rows |-> rs] :
        rs \in SeqUpTo(rowSet, maxRows) }

ItemFrames ==
    FramesOver(NarrowColumns, NarrowRows, MaxItemRows)
        \cup FramesOver(WideColumns, WideRows, MaxItemRows)

InitItems == HelperInit("process_line_items", SeqUpTo(ItemFrames, MaxItemFrames))

NextItems == CallProcessLineItems

SpecItems == InitItems /\ [][NextItems]_vars

\* Tables with quantity columns
UnitsCol == <<"U","n","i","t","s">>

QtyCells == {<<"5">>, <<"3">>, <<"2">>, <<"0">>, <<"x">>, <<"2"," ","p","c","s">>, <<"1",".","5">>, NaN}

UnitsCells == {<<"2">>, NaN}

ItemCells == {<<"a">>}

\* a table with quantity columns has at most this many rows
MaxStatRows == 3

\* the rows whose cell j is drawn from cellSets[j]
RowsFrom(cellSets) ==
    {r \in [1..Len(cellSets) -> UNION Range(cellSets)] :
        \A j \in 1..Len(cellSets) : r[j] \in cellSets[j]}

StatFrames ==
    FramesOver(<<ItemCol>>, RowsFrom(<<ItemCells>>), MaxStatRows)
        \cup FramesOver(<<QtyCol>>, RowsFrom(<<QtyCells>>), MaxStatRows)
        \cup FramesOver(<<ItemCol, QtyCol>>, RowsFrom(<<ItemCells, QtyCells>>), MaxStatRows)
        \cup FramesOver(<<QtyCol, UnitsCol>>, RowsFrom(<<QtyCells, UnitsCells>>), MaxStatRows)

InitStats == HelperInit("process_line_items", {<<f>> : f \in StatFrames})

NextStats ==
    \/ CallProcessLineItems
    \/ CallCalculateSummaryStats

SpecStats == InitStats /\ [][NextStats]_vars

-----------------------------------------------------------------------------
(* Properties of one run of main(), checked under Spec *)

\* C1: every run of main() that created a temporary file ends with the file
\* removed from disk, whatever failed on the way.
C1_TempFileRemoved == (pc = "done" /\ tmp_created) => ~tmp_exists

\* C2: no error raised during a run propagates out of main(); every one is
\* caught and ends in a user-facing message.
C2_NoErrorLeavesMain == ~propagated

\* C3 as stated: when tabula-py or the Java runtime is missing, the run is
\* inert: no file uploader, no temporary file, no call of tabula.read_pdf.
C3_InertWhenAnyDependencyMissing ==
    (~TABULA_AVAILABLE \/ ~java_ok) =>
        (~uploader_offered /\ ~tmp_created /\ read_calls = 0)

\* C3 as amended: when tabula-py is missing the run shows the message and is
\* inert (no file uploader, no temporary file, no call of tabula.read_pdf);
\* when only the Java runtime is not detected the run shows a warning and
\* goes on to offer the file uploader.
C3_InertWithoutTabula ==
    /\ ~TABULA_AVAILABLE =>
          /\ ~uploader_offered /\ ~tmp_created /\ read_calls = 0
          /\ pc # "start" => (pc = "done" /\ "Missing Dependencies" \in messages)
    /\ (TABULA_AVAILABLE /\ ~java_ok /\ pc \notin {"start", "check_java", "file_uploader"}) =>
          ("Java Runtime Not Detected" \in messages /\ uploader_offered)

C3_Witness == ~TABULA_AVAILABLE /\ pc = "done" /\ "Missing Dependencies" \in messages

\* tabula.read_pdf has returned and nothing has raised since
ReadReturned ==
    /\ read_calls = 1
    /\ pc \in {"tables", "line_items", "finally", "done"}
    /\ "Error processing PDF" \notin messages

\* an empty list of tables, or tables with no rows
RowlessInput(frames) == \A i \in 1..Len(frames) : Len(frames[i].rows) = 0

\* C7 as stated: an empty input gives zero line items and total products 0,
\* and the run of main() on it presents an order summary with total products 0.
C7_EmptyInputShowsSummary ==
    (ReadReturned /\ RowlessInput(dfs)) =>
        /\ Len(process_line_items(dfs).rows) = 0
        /\ calculate_summary_stats(process_line_items(dfs))[1] = 0
        /\ pc = "done" => (summary_shown /\ total_products = 0)

\* C7 as amended: an empty input gives zero line items and total products 0;
\* a run of main() in which read_pdf returns tables that all have no rows
\* presents an order summary with total products 0, and a run in which it
\* returns an empty list presents no summary but the "No tables found" error.
C7_EmptyInput ==
    (ReadReturned /\ RowlessInput(dfs)) =>
        /\ Len(process_line_items(dfs).rows) = 0
        /\ calculate_summary_stats(process_line_items(dfs))[1] = 0
        /\ pc = "done" =>
              IF Len(dfs) = 0
              THEN ~summary_shown /\ "No tables found" \in messages
              ELSE summary_shown /\ total_products = 0 /\ IsEmpty(items_df)

C7_Witness ==
    /\ pc = "done" /\ ReadReturned
    /\ Len(dfs) > 0 /\ RowlessInput(dfs)
    /\ summary_shown /\ total_products = 0

\* the quantities that qty: / quantity: / units: patterns find in a text
TextQuantities(text) ==
    LET low == StrLower(text)
        kws == {<<"q","t","y",":">>, <<"q","u","a","n","t","i","t","y",":">>,
                <<"u","n","i","t","s",":">>}
        numAt(p, kw) == p + Len(kw) + RunLen(low, p + Len(kw), SpaceChars)
        hits == {h \in (1..Len(text)) \X kws :
                    LitAt(low, h[1], h[2]) /\ RunLen(low, numAt(h[1], h[2]), DigitSet) > 0}
        value(h) == LET q == numAt(h[1], h[2])
                    IN  DigitsValue(SubSeq(low, q, q + RunLen(low, q, DigitSet) - 1))
        ordered == SortedSeq({h[1] : h \in hits})
    IN  [k \in 1..Len(ordered) |->
            value(CHOOSE h \in hits : h[1] = ordered[k])]

\* the quantities found in the text of all the tables
AllTextQuantities(frames) ==
    LET per == [i \in 1..Len(frames) |-> SumSeq(TextQuantities(frames[i].text))]
        any == \E i \in 1..Len(frames) : Len(TextQuantities(frames[i].text)) > 0
    IN  [found |-> any, total |-> SumSeq(per)]

HasQtyColumn(df) == \E j \in 1..Len(df.columns) : IsQtyColumn(df.columns[j])

\* C8: when there are line items but none of their columns is quantity-like,
\* the total quantity shown is the sum of the quantities that qty:/quantity:/units: patterns find
\* in the extracted text; the sentinel is shown only when the text has none.
C8_TextFallback ==
    (pc = "done" /\ summary_shown /\ ~IsEmpty(items_df) /\ ~HasQtyColumn(items_df)
        /\ AllTextQuantities(dfs).found) =>
        total_quantity = IntValue(AllTextQuantities(dfs).total)

\* C10: tabula.read_pdf is called at most once per run, only when tabula-py
\* is available, a file is uploaded and the button is pressed; when it is
\* called the temporary file exists and holds the uploaded bytes; the file is
\* removed only at the end of the run, after processing finished or failed.
C10_ReadThenCleanup ==
    /\ read_calls <= 1
    /\ read_calls = 1 => (TABULA_AVAILABLE /\ uploaded_file /\ pressed)
    /\ pc = "read_pdf" => (read_calls = 0 /\ tmp_exists /\ tmp_written)
    /\ pc \in {"tables", "line_items", "except", "finally"} => tmp_exists
    /\ (tmp_created /\ ~tmp_exists) => pc = "done"

C10_Witness ==
    pc = "done" /\ read_calls = 1 /\ downloads_offered /\ tmp_created /\ ~tmp_exists

-----------------------------------------------------------------------------
(* Properties of extract_customer_info, checked under SpecCustomer *)

AnyCustomerMatch(df) ==
    \E k \in 1..Len(customer_patterns) : SearchCustomer(df.text, k) # NoMatch

AnyDateMatch(df) ==
    \E k \in 1..Len(date_patterns) : SearchDate(df.text, k) # NoMatch

\* the stripped capture of the first pattern that matches in the first table
\* that has any match, "Not found" when no table has one
FirstCustomer(frames) ==
    LET ts == {i \in 1..Len(frames) : AnyCustomerMatch(frames[i])}
    IN  IF ts = {} THEN NotFound
        ELSE LET i == CHOOSE x \in ts : \A y \in ts : x <= y
                 ks == {k \in 1..Len(customer_patterns) :
                            SearchCustomer(frames[i].text, k) # NoMatch}
                 k == CHOOSE x \in ks : \A y \in ks : x <= y
             IN  Strip(SearchCustomer(frames[i].text, k))

FirstDate(frames) ==
    LET ts == {i \in 1..Len(frames) : AnyDateMatch(frames[i])}
    IN  IF ts = {} THEN NotFound
        ELSE LET i == CHOOSE x \in ts : \A y \in ts : x <= y
                 ks == {k \in 1..Len(date_patterns) :
                            SearchDate(frames[i].text, k) # NoMatch}
                 k == CHOOSE x \in ks : \A y \in ks : x <= y
             IN  Strip(SearchDate(frames[i].text, k))

\* C4: each field is the stripped capture of the first pattern that matches
\* in the first table that has any match, never replaced by a later table,
\* and is "Not found" if and only if no pattern matches in any table.
C4_FirstMatch ==
    pc = "process_line_items" =>
        /\ customer_name = FirstCustomer(dfs)
        /\ order_date = FirstDate(dfs)
        /\ customer_name = NotFound <=> \A i \in 1..Len(dfs) : ~AnyCustomerMatch(dfs[i])
        /\ order_date = NotFound <=> \A i \in 1..Len(dfs) : ~AnyDateMatch(dfs[i])

-----------------------------------------------------------------------------
(* Properties of calculate_summary_stats, checked under SpecStats *)

\* the sum over every quantity-like column of its numeric cells, times Scale
SumAllQtyColumns(df) ==
    SumSeq([j \in 1..Len(df.columns) |->
                IF IsQtyColumn(df.columns[j]) THEN ColumnSum(df, j) ELSE 0])

\* C5: for a non-empty line-item table the total quantity is the sum of the
\* numeric cells of every quantity-like column, not only of one of them.
C5_SumsEveryQuantityColumn ==
    (pc = "returned" /\ ~IsEmpty(items_df) /\ SumAllQtyColumns(items_df) > 0) =>
        total_quantity = IntValue(SumAllQtyColumns(items_df) \div Scale)

\* a quantity-like column with at least one numeric cell
HasQuantitySignal(df) ==
    \E j \in 1..Len(df.columns) :
        /\ IsQtyColumn(df.columns[j])
        /\ \E r \in 1..Len(df.rows) :
              ToNumeric(StripNonNumeric(AsStr(df.rows[r][j]))) >= 0

\* C6: the total quantity is the sentinel "Unable to calculate" exactly when
\* there is no quantity signal, and an integer whenever a quantity column
\* holds a numeric value, also when the values sum to 0.
C6_SentinelIffNoSignal ==
    pc = "returned" =>
        /\ total_quantity = UnableToCalculate <=> ~HasQuantitySignal(items_df)
        /\ HasQuantitySignal(items_df) => total_quantity.kind = "int"

-----------------------------------------------------------------------------
(* Properties of process_line_items, checked under SpecItems *)

\* the largest number of rows of a table
MaxRowCount(frames) ==
    LET ns == {Len(frames[i].rows) : i \in 1..Len(frames)} \cup {0}
    IN  CHOOSE n \in ns : \A m \in ns : m <= n

\* <<table position, row position>> of every row that is not completely empty
NonEmptyRows(frames) ==
    {p \in (1..Len(frames)) \X (1..MaxRowCount(frames)) :
        /\ p[2] <= Len(frames[p[1]].rows)
        /\ NonMissing(frames[p[1]].rows[p[2]]) > 0}

\* the pairs in table order, then row order
InOrder(pairs, frames) ==
    LET width == MaxRowCount(frames) + 1
        codes == SortedSeq({p[1] * width + p[2] : p \in pairs})
    IN  [k \in 1..Len(codes) |-> <<codes[k] \div width, codes[k] % width>>]

\* the cell of row k of df in column c
CellOf(df, k, c) == df.rows[k][CHOOSE j \in 1..Len(df.columns) : df.columns[j] = c]

\* row k of df is the item of row p[2] of table p[1]: every column value of
\* that row, Table_Source = "Table_<position of the table>" and Row_Index =
\* the row's index
Carries(df, k, frames, p) ==
    LET src == frames[p[1]]
    IN  /\ ({TableSourceCol, RowIndexCol} \cup Range(src.columns)) \subseteq Range(df.columns)
        /\ CellOf(df, k, TableSourceCol) = <<"T","a","b","l","e","_">> \o IntToStr(p[1])
        /\ CellOf(df, k, RowIndexCol) = IntToStr(src.index[p[2]])
        /\ \A j \in 1..Len(src.columns) :
              CellOf(df, k, src.columns[j]) = src.rows[p[2]][j]

\* df holds exactly one item per pair, in table order, then row order
Flattened(df, frames, pairs) ==
    LET ps == InOrder(pairs, frames)
    IN  /\ Len(df.rows) = Len(ps)
        /\ \A k \in 1..Len(ps) : Carries(df, k, frames, ps[k])

\* the columns of the combined frame: the metadata and the columns of every
\* table that contributes a row
CombinedColumns(frames) ==
    {TableSourceCol, RowIndexCol} \cup
        UNION {Range(frames[i].columns) :
                 i \in {t \in 1..Len(frames) :
                          /\ Len(frames[t].rows) >= MinRows
                          /\ \E r \in 1..Len(frames[t].rows) : NonMissing(frames[t].rows[r]) > 0}}

\* the rows of tables with at least MinRows rows whose item has values in at
\* least 30% of the combined columns
KeptRows(frames) ==
    {p \in NonEmptyRows(frames) :
        /\ Len(frames[p[1]].rows) >= MinRows
        /\ ThreshDen * (2 + NonMissing(frames[p[1]].rows[p[2]]))
              >= ThreshNum * Cardinality(CombinedColumns(frames))}

\* C9 as stated: the result holds exactly one item for every row that is not
\* completely empty of every table, with the row's values and its metadata,
\* in table order, then row order; no row is lost.
C9_FlattensEveryRow ==
    pc = "calculate_summary_stats" =>
        Flattened(items_df, dfs, NonEmptyRows(dfs))

\* C9 as amended: the result holds exactly one item, with the row's values
\* and its metadata, in table order, then row order, for every row that is
\* not completely empty of every table with at least 2 rows, provided the
\* item has values in at least 30% of the columns of the combined frame;
\* tables with fewer than 2 rows and items below that share are dropped.
C9_FlattensKeptRows ==
    pc = "calculate_summary_stats" =>
        Flattened(items_df, dfs, KeptRows(dfs))

C9_Witness ==
    /\ pc = "calculate_summary_stats"
    /\ Len(dfs) = 2
    /\ Len(items_df.rows) > 0
    /\ \E p \in NonEmptyRows(dfs) :
          Len(dfs[p[1]].rows) >= MinRows /\ p \notin KeptRows(dfs)

=============================================================================
